---- MODULE Spec2Model ----
(***************************************************************************)
(* Model of the tomato_food_delivery_app delivery workflow:                *)
(*   - the Jenkins declarative pipeline (stages, readiness probe, post),   *)
(*   - the mocha/selenium test suite run by the 'Run Selenium Tests' stage *)
(*   - the reporter in post { success / failure }.                         *)
(* One behaviour of the model is one pipeline run.                         *)
(***************************************************************************)
EXTENDS Integers, Sequences, FiniteSets, TLC

VARIABLES
    pc,            \* "stage" | "post_always" | "post_result" | "done"
    cur,           \* index (in StageNames) of the stage being run
    stageStatus,   \* stage index -> "notrun" | "running" | "success" | "failed"
    startOrder,    \* stage indices in the order in which they were started
    buildResult,   \* the run's status: "SUCCESS" | "FAILURE"
    \* ---- stage('Wait for Services') shell script
    \* (counter, attempts, clock, firstAt, verdictAt belong to the running
    \*  script and are gone when its process has exited)
    probeEp,       \* position in the script: "none" | "frontend" | "backend"
                   \*   | "exit0" | "exit1" (about to return that status)
    counter,       \* shell variable counter
    attempts,      \* endpoint -> number of curl invocations made
    curlOk,        \* endpoint -> some curl invocation succeeded
    verdict,       \* endpoint -> "none" | "ready" | "failed"
    probeMsg,      \* the failure line echoed by the script ("" when none)
    clock,         \* time units the script has slept
    firstAt,       \* endpoint -> clock at its first curl (-1 before)
    verdictAt,     \* endpoint -> clock at its verdict (-1 before)
    \* ---- the mocha run (npm test)
    mochaPc,       \* "idle" | "before" | "tests" | "after" | "finished"
    driver,        \* "undefined" | "open" | "quit"
    hookFailed,    \* the "before all" hook threw
    sessions,      \* browser sessions createDriver has built in this run
    quitOn,        \* what driver.quit() was invoked on: "none" (not invoked)
                   \*   | "open" | "undefined"
    testIdx,       \* index in TestPlan of the next scenario
    results,       \* ordered ScenarioResults: [g, t, outcome]
    lastMsg,       \* what the last scenario logged: "ok" | "note" | ""
    lastError,     \* an assertion or lookup error inside the last scenario:
                   \*   "none" | "caught" (by its own try/catch) | "uncaught"
    regSubmitted,  \* 2.2 clicked the submit button of the sign-up form
    indicator,     \* .navbar-profile on the page: "absent" | "hidden" | "visible"
    url,           \* current route: "blank" | "home" | "cart" | "order"
    groupStartAuth,\* Checkout / Logout group -> indicator when the group started
    \* ---- the job's workspace, kept from one run to the next
    workTree,      \* the checkout: "empty" (no .git) | "at_main" (HEAD at the
                   \*   tip of origin/main, tracked files unmodified, as after a
                   \*   fresh clone) | "behind" (an older commit of main,
                   \*   unmodified) | "dirty" (tracked files modified locally)
    gitError,      \* why git stopped in 'Checkout Code': "" (it did not)
                   \*   | "unreachable" (remote) | "overwrite" (local changes
                   \*   would be overwritten by merge)
    \* ---- docker: the registry and the compose deployment on the agent
    published,     \* images pushed to Docker Hub by this run
    pushTried,     \* images whose docker push was run by this run
    services,      \* the deployment: "stopped" (nothing runs) | "previous"
                   \*   (an earlier run's services) | "partial" | "new"
    deployPc,      \* the deploy script: "none" | "exit0" | "exit1"
    deploySteps,   \* its commands down, pull, up -> "notrun" | "ok" | "failed"
    \* ---- workspace file tests/test-results.log
    logFile,       \* [owner: "none" | "stale" | "current", text: token sequence]
    \* ---- post section
    postOrder,     \* post blocks in the order in which they ran
    notifications  \* emailext invocations attempted, in order

vars == <<pc, cur, stageStatus, startOrder, buildResult,
          probeEp, counter, attempts, curlOk, verdict, probeMsg, clock,
          firstAt, verdictAt,
          mochaPc, driver, hookFailed, sessions, quitOn, testIdx, results, lastMsg,
          lastError, regSubmitted, indicator, url, groupStartAuth,
          workTree, gitError, published, pushTried, services, deployPc,
          deploySteps, logFile, postOrder, notifications>>

pipeVars  == <<pc, cur, stageStatus, startOrder, buildResult>>
probeVars == <<probeEp, counter, attempts, curlOk, verdict, probeMsg, clock,
               firstAt, verdictAt>>
suiteVars == <<mochaPc, driver, hookFailed, sessions, quitOn, testIdx, results, lastMsg,
               lastError, regSubmitted, indicator, url, groupStartAuth>>
dockerVars == <<published, pushTried, services, deployPc, deploySteps>>
postVars  == <<postOrder, notifications>>

----------------------------------------------------------------------------
(* Bounds of the model *)

\* the environment makes at most this many scenarios of one run fail
MaxFailures == 2

----------------------------------------------------------------------------
(* The pipeline: stages { ... } *)

StageNames == << "Checkout Code", "Docker Login", "Build & Push Docker Images",
                 "Deploy with Docker Compose", "Install Test Dependencies",
                 "Wait for Services", "Run Selenium Tests" >>

NumStages == Len(StageNames)

CheckoutIdx == 1
LoginIdx    == 2
BuildIdx    == 3
DeployIdx   == 4
InstallIdx  == 5
WaitIdx     == 6
SeleniumIdx == 7

Endpoints == {"frontend", "backend"}

\* a declarative pipeline always runs the next stage, whatever the last one did
StageGateIgnoreFailure(ok) == TRUE

\* declarative pipeline: the next stage runs only when this one succeeded
StageGate(ok) == ok

\* the stage that is running starts (it is the current one and nothing failed)
BeginStage(i) ==
    /\ pc = "stage"
    /\ cur = i
    /\ stageStatus[i] = "notrun"

\* the stage ends with exit status ok; the pipeline goes on or turns to post
EndStage(i, ok) ==
    /\ stageStatus' = [stageStatus EXCEPT ![i] = IF ok THEN "success" ELSE "failed"]
    /\ buildResult' = IF ok THEN buildResult ELSE "FAILURE"
    /\ IF StageGate(ok) /\ i < NumStages
         THEN pc' = "stage" /\ cur' = i + 1
         ELSE pc' = "post_always" /\ cur' = cur

\* a stage that is one sh step whose exit status the environment decides
ShellStage(i) ==
    /\ BeginStage(i)
    /\ startOrder' = Append(startOrder, i)
    /\ \E ok \in BOOLEAN : EndStage(i, ok)
    /\ UNCHANGED <<probeVars, suiteVars, logFile, workTree, gitError, dockerVars, postVars>>

WorkTrees == {"empty", "at_main", "behind", "dirty"}

\* git pull origin main: fetch, then fast-forward the work tree; it stops with
\* an error when the remote cannot be reached or when the incoming commits
\* touch a locally modified file, and it keeps local modifications otherwise
GitPull(tree, remoteOk, overlaps) ==
    IF ~remoteOk THEN [ok |-> FALSE, tree |-> tree, err |-> "unreachable"]
    ELSE IF tree = "dirty"
           THEN [ok |-> ~overlaps, tree |-> "dirty",
                 err |-> IF overlaps THEN "overwrite" ELSE ""]
           ELSE [ok |-> TRUE, tree |-> "at_main", err |-> ""]

\* git clone <url> .
GitClone(remoteOk) ==
    IF remoteOk THEN [ok |-> TRUE, tree |-> "at_main", err |-> ""]
    ELSE [ok |-> FALSE, tree |-> "empty", err |-> "unreachable"]

\* if [ ! -d ".git" ]; then git clone ... ; else git pull origin main; fi
CheckoutCode ==
    /\ BeginStage(CheckoutIdx)
    /\ startOrder' = Append(startOrder, CheckoutIdx)
    /\ \E remoteOk \in BOOLEAN, overlaps \in BOOLEAN :
         LET r == IF workTree = "empty"
                    THEN GitClone(remoteOk)
                    ELSE GitPull(workTree, remoteOk, overlaps)
         IN  /\ workTree' = r.tree
             /\ gitError' = r.err
             /\ EndStage(CheckoutIdx, r.ok)
    /\ UNCHANGED <<probeVars, suiteVars, logFile, dockerVars, postVars>>

DockerLogin == ShellStage(LoginIdx)

\* the images in the order in which the script builds and pushes them
Images == <<"backend", "frontend", "admin">>

\* the commands of the script: three docker build, then three docker push
BuildCommands ==
    [k \in 1..6 |-> [cmd |-> IF k <= 3 THEN "build" ELSE "push",
                     img |-> Images[IF k <= 3 THEN k ELSE k - 3]]]

\* a shell without -e: every command runs whatever the earlier ones returned
StepRunsNoErrexit(oks, k) == TRUE

\* sh -xe: the k-th command runs when every earlier command returned 0
StepRuns(oks, k) == \A j \in 1..(k - 1) : oks[j]

\* the script as a whole; oks[k] is what the k-th command returns if it runs
BuildAndPush ==
    /\ BeginStage(BuildIdx)
    /\ startOrder' = Append(startOrder, BuildIdx)
    /\ \E oks \in [1..6 -> BOOLEAN] :
         LET ran == {k \in 1..6 : StepRuns(oks, k)}
             pushes == {k \in ran : BuildCommands[k].cmd = "push"}
         IN  /\ pushTried' = {BuildCommands[k].img : k \in pushes}
             /\ published' = {BuildCommands[k].img : k \in {j \in pushes : oks[j]}}
             /\ EndStage(BuildIdx, \A k \in ran : oks[k])
    /\ UNCHANGED <<probeVars, suiteVars, logFile, workTree, gitError, services,
                   deployPc, deploySteps, postVars>>

DeployCommands == {"down", "pull", "up"}

\* docker compose down without '|| true'
TeardownStatusStrict(downOk) == downOk

\* docker compose down || true
TeardownStatus(downOk) == TRUE

\* the script: down || true; pull; up -d --remove-orphans; echo; docker ps
DeployRun ==
    /\ BeginStage(DeployIdx)
    /\ startOrder' = Append(startOrder, DeployIdx)
    /\ stageStatus' = [stageStatus EXCEPT ![DeployIdx] = "running"]
    /\ \E downOk \in BOOLEAN, pullOk \in BOOLEAN, upOk \in BOOLEAN,
          partial \in BOOLEAN :
         LET goesOn  == TeardownStatus(downOk)
             pulls   == goesOn
             starts  == pulls /\ pullOk
             afterDown == IF downOk /\ services # "stopped"
                            THEN "stopped" ELSE services
         IN  /\ (starts /\ ~upOk) \/ ~partial
             /\ deploySteps' =
                   [c \in DeployCommands |->
                      IF c = "down" THEN (IF downOk THEN "ok" ELSE "failed")
                      ELSE IF c = "pull"
                        THEN (IF ~pulls THEN "notrun"
                              ELSE IF pullOk THEN "ok" ELSE "failed")
                      ELSE (IF ~starts THEN "notrun"
                            ELSE IF upOk THEN "ok" ELSE "failed")]
             /\ services' = IF starts /\ upOk THEN "new"
                            ELSE IF partial THEN "partial" ELSE afterDown
             /\ deployPc' = IF goesOn /\ pullOk /\ upOk THEN "exit0" ELSE "exit1"
    /\ UNCHANGED <<pc, cur, buildResult, probeVars, suiteVars, logFile, workTree,
                   gitError, published, pushTried, postVars>>

\* the script's process exits and the sh step returns its status
DeployFinish ==
    /\ pc = "stage" /\ cur = DeployIdx /\ stageStatus[DeployIdx] = "running"
    /\ deployPc \in {"exit0", "exit1"}
    /\ startOrder' = startOrder
    /\ EndStage(DeployIdx, deployPc = "exit0")
    /\ deployPc' = "none"
    /\ deploySteps' = [c \in DeployCommands |-> "notrun"]
    /\ UNCHANGED <<probeVars, suiteVars, logFile, workTree, gitError, published,
                   pushTried, services, postVars>>

InstallTestDependencies == ShellStage(InstallIdx)

----------------------------------------------------------------------------
(* stage('Wait for Services') *)

max_retries == 10

\* sleep 30 before the first curl
SettleDelay == 30

\* the settle delay pasted into the loop: sleep 30 between attempts
ProbeDelayAsSettle == SettleDelay

\* sleep 10 between attempts
ProbeDelay == 10

\* the budget test written with -gt: one attempt too many
ExhaustedOffByOne(c) == c > max_retries

\* [ $counter -ge $max_retries ]
Exhausted(c) == c >= max_retries

\* the exhausted branch leaves the loop instead of the script
ProbeOutcomeBreak(ok, c) ==
    IF ok THEN "ready" ELSE IF Exhausted(c) THEN "ready" ELSE "retry"

\* one evaluation of the until condition and, when curl failed, of the loop
\* body with the incremented counter c: "ready" | "exit" | "retry"
ProbeOutcome(ok, c) ==
    IF ok THEN "ready" ELSE IF Exhausted(c) THEN "exit" ELSE "retry"

FailureMessage(e) ==
    IF e = "frontend" THEN "Frontend service not ready after 10 attempts"
                      ELSE "Backend service not ready after 10 attempts"

\* the backend loop goes on with the counter the frontend loop left
BackendCounterKept(c) == c

\* counter=0 before the backend loop
BackendCounter(c) == 0

\* the script starts: echo, sleep 30, max_retries=10, counter=0
WaitStart ==
    /\ BeginStage(WaitIdx)
    /\ startOrder' = Append(startOrder, WaitIdx)
    /\ stageStatus' = [stageStatus EXCEPT ![WaitIdx] = "running"]
    /\ clock' = clock + SettleDelay
    /\ counter' = 0
    /\ probeEp' = "frontend"
    /\ UNCHANGED <<pc, cur, buildResult, attempts, curlOk, verdict, probeMsg,
                   firstAt, verdictAt, suiteVars, logFile, workTree, gitError, dockerVars, postVars>>

\* one turn of an until-loop: curl, then either leave the loop or run its body
ProbeAttempt ==
    /\ pc = "stage" /\ cur = WaitIdx /\ stageStatus[WaitIdx] = "running"
    /\ probeEp \in Endpoints
    /\ \E ok \in BOOLEAN :
         LET e   == probeEp
             c   == counter + 1
             out == ProbeOutcome(ok, c)
         IN
         /\ attempts' = [attempts EXCEPT ![e] = @ + 1]
         /\ curlOk' = [curlOk EXCEPT ![e] = @ \/ ok]
         /\ firstAt' = [firstAt EXCEPT ![e] = IF @ = -1 THEN clock ELSE @]
         /\ CASE out = "ready" ->
                   /\ verdict' = [verdict EXCEPT ![e] = "ready"]
                   /\ verdictAt' = [verdictAt EXCEPT ![e] = clock]
                   /\ clock' = clock
                   /\ probeMsg' = probeMsg
                   /\ counter' = IF e = "frontend" THEN BackendCounter(counter)
                                 ELSE IF ok THEN counter ELSE c
                   /\ probeEp' = IF e = "frontend" THEN "backend" ELSE "exit0"
              [] out = "exit" ->
                   /\ verdict' = [verdict EXCEPT ![e] = "failed"]
                   /\ verdictAt' = [verdictAt EXCEPT ![e] = clock]
                   /\ clock' = clock
                   /\ counter' = c
                   /\ probeMsg' = FailureMessage(e)
                   /\ probeEp' = "exit1"
              [] out = "retry" ->
                   /\ counter' = c
                   /\ clock' = clock + ProbeDelay
                   /\ UNCHANGED <<verdict, verdictAt, probeMsg, probeEp>>
    /\ UNCHANGED <<pipeVars, suiteVars, logFile, workTree, gitError, dockerVars, postVars>>

\* the script's process exits and the sh step returns its status
WaitFinish ==
    /\ pc = "stage" /\ cur = WaitIdx /\ stageStatus[WaitIdx] = "running"
    /\ probeEp \in {"exit0", "exit1"}
    /\ startOrder' = startOrder
    /\ EndStage(WaitIdx, probeEp = "exit0")
    /\ probeEp' = "none"
    /\ counter' = 0
    /\ attempts' = [e \in Endpoints |-> 0]
    /\ clock' = 0
    /\ firstAt' = [e \in Endpoints |-> -1]
    /\ verdictAt' = [e \in Endpoints |-> -1]
    /\ UNCHANGED <<curlOk, verdict, probeMsg, suiteVars, logFile, workTree, gitError, dockerVars, postVars>>

----------------------------------------------------------------------------
(* The mocha suite: describe('Tomato Food Delivery App - Selenium Test Suite') *)

\* the declared scenario groups, Test Case 1 .. Test Case 10
GroupNames == << "Homepage", "Registration", "Login", "Menu", "AddToCart",
                 "RemoveFromCart", "CartPage", "Checkout", "Logout", "Footer" >>

NumGroups == Len(GroupNames)

\* the groups with Checkout declared before CartPage
TestPlanSwapped ==
    << <<1,1>>, <<1,2>>, <<1,3>>, <<2,1>>, <<2,2>>, <<3,1>>, <<3,2>>,
       <<4,1>>, <<4,2>>, <<4,3>>, <<5,1>>, <<5,2>>, <<5,3>>, <<6,1>>,
       <<8,1>>, <<8,2>>, <<8,3>>, <<7,1>>, <<7,2>>, <<7,3>>,
       <<9,1>>, <<9,2>>,
       <<10,1>>, <<10,2>>, <<10,3>>, <<10,4>>, <<10,5>> >>

\* the it() blocks in declaration order, <<group, position in the group>>
TestPlan ==
    << <<1,1>>, <<1,2>>, <<1,3>>, <<2,1>>, <<2,2>>, <<3,1>>, <<3,2>>,
       <<4,1>>, <<4,2>>, <<4,3>>, <<5,1>>, <<5,2>>, <<5,3>>, <<6,1>>,
       <<7,1>>, <<7,2>>, <<7,3>>, <<8,1>>, <<8,2>>, <<8,3>>,
       <<9,1>>, <<9,2>>,
       <<10,1>>, <<10,2>>, <<10,3>>, <<10,4>>, <<10,5>> >>

NumTests == Len(TestPlan)

IndicatorStates == {"absent", "hidden", "visible"}

\* the groups whose scenarios look for the authenticated-session indicator
AuthGroups == {8, 9}

\* scenarios that this model translates statement by statement
RegisterTest   == <<2,2>>
LogoutFirst    == <<3,1>>
LoginTest      == <<3,2>>
CartDotTest    == <<5,3>>
CheckoutNav    == <<8,2>>
OrderFormTest  == <<8,3>>
DropdownTest   == <<9,1>>
LogoutTest     == <<9,2>>

SpecialTests == {RegisterTest, LogoutFirst, LoginTest, CartDotTest, CheckoutNav,
                 OrderFormTest, DropdownTest, LogoutTest}

\* the route a scenario navigates to first ("same": it does not navigate)
TestTarget(gt) ==
    IF gt \in {<<7,1>>, <<7,2>>, <<8,1>>} THEN "cart"
    ELSE IF gt \in {<<1,1>>, <<2,1>>, <<4,1>>, <<5,1>>, <<6,1>>,
                    <<10,1>>, <<10,3>>, <<10,4>>} THEN "home"
    ELSE "same"

RECURSIVE CountOutcome(_, _)
CountOutcome(rs, o) ==
    IF rs = <<>> THEN 0
    ELSE (IF Head(rs).outcome = o THEN 1 ELSE 0) + CountOutcome(Tail(rs), o)

NumPassed == CountOutcome(results, "passed")
NumFailed == CountOutcome(results, "failed")

\* the environment may still make a scenario fail
CanFail == NumFailed < MaxFailures

\* mocha started with --bail: the first failure ends the run
AfterTestBail(i, outcome) == IF outcome = "failed" THEN NumTests + 1 ELSE i + 1

\* mocha's runner: the next it() in declaration order, whatever the outcome
AfterTest(i, outcome) == i + 1

TestReady(gt) ==
    /\ pc = "stage" /\ cur = SeleniumIdx
    /\ mochaPc = "tests"
    /\ testIdx <= NumTests
    /\ TestPlan[testIdx] = gt

\* mocha's verdict on an it(): failed iff its async body rejected
ItOutcome(err) == IF err = "uncaught" THEN "failed" ELSE "passed"

\* the scenario ends: its result is appended and the runner moves on
Finish(gt, err, msg) ==
    /\ results' = Append(results,
                         [g |-> gt[1], t |-> gt[2], outcome |-> ItOutcome(err)])
    /\ lastMsg' = msg
    /\ lastError' = err
    /\ (gt # RegisterTest => regSubmitted' = regSubmitted)
    /\ testIdx' = AfterTest(testIdx, ItOutcome(err))
    /\ mochaPc' = IF AfterTest(testIdx, ItOutcome(err)) > NumTests
                    THEN "after" ELSE "tests"
    /\ groupStartAuth' = IF gt[2] = 1 /\ gt[1] \in AuthGroups
                           THEN [groupStartAuth EXCEPT ![gt[1]] = indicator]
                           ELSE groupStartAuth
    /\ UNCHANGED <<driver, hookFailed, sessions, quitOn, pipeVars, probeVars,
                   logFile, workTree, gitError, dockerVars, postVars>>

\* sh: cd tests; npm test 2>&1 | tee test-results.log  (tee truncates the file)
SeleniumStart ==
    /\ BeginStage(SeleniumIdx)
    /\ startOrder' = Append(startOrder, SeleniumIdx)
    /\ stageStatus' = [stageStatus EXCEPT ![SeleniumIdx] = "running"]
    /\ logFile' = [owner |-> "current", text |-> <<>>]
    /\ mochaPc' = "before"
    /\ UNCHANGED <<pc, cur, buildResult, probeVars, driver, hookFailed,
                   sessions, quitOn, testIdx,
                   results, lastMsg, lastError, regSubmitted,
                   indicator, url, groupStartAuth, workTree, gitError, dockerVars, postVars>>

\* before(): driver = await createDriver(), rethrown when it fails
MochaBefore ==
    /\ pc = "stage" /\ cur = SeleniumIdx /\ mochaPc = "before"
    /\ \E ok \in BOOLEAN :
         IF ok THEN /\ driver' = "open"
                    /\ sessions' = sessions + 1
                    /\ hookFailed' = FALSE
                    /\ mochaPc' = "tests"
               ELSE /\ driver' = driver
                    /\ sessions' = sessions
                    /\ hookFailed' = TRUE
                    /\ mochaPc' = "after"
    /\ UNCHANGED <<pipeVars, probeVars, quitOn, testIdx, results, lastMsg, lastError,
                   regSubmitted, indicator, url, groupStartAuth, logFile, workTree, gitError, dockerVars, postVars>>

\* an it() whose steps either all succeed or one of them throws
GenericTest ==
    \E gt \in {TestPlan[i] : i \in 1..NumTests} \ SpecialTests :
      /\ TestReady(gt)
      /\ \E ok \in BOOLEAN, navigated \in BOOLEAN :
           /\ ok \/ CanFail
           /\ ok => navigated
           /\ url' = IF navigated /\ TestTarget(gt) # "same" THEN TestTarget(gt) ELSE url
           /\ indicator' = indicator
           /\ Finish(gt, IF ok THEN "none" ELSE "uncaught", IF ok THEN "ok" ELSE "")

\* 5.3: the whole body is inside try/catch
CartDot ==
    /\ TestReady(CartDotTest)
    /\ \E dot \in BOOLEAN :
         Finish(CartDotTest, IF dot THEN "none" ELSE "caught",
                IF dot THEN "ok" ELSE "note")
    /\ UNCHANGED <<indicator, url>>

\* 2.2 with the indicator check outside the try block
RegistrationCheckUncaught(ind) ==
    IF ind = "visible" THEN [err |-> "none", msg |-> "ok"]
                       ELSE [err |-> "uncaught", msg |-> ""]

\* 2.2 after the submit click: try { findElement(.navbar-profile);
\* assert.ok(isDisplayed); log success } catch (e) { log note }
RegistrationCheck(ind) ==
    IF ind = "visible" THEN [err |-> "none", msg |-> "ok"]
                       ELSE [err |-> "caught", msg |-> "note"]

\* 2.2 it('should register a new user successfully')
Register ==
    /\ TestReady(RegisterTest)
    /\ \E submitted \in BOOLEAN :
         /\ submitted \/ CanFail
         /\ regSubmitted' = submitted
         /\ IF submitted
              THEN \E ind \in IndicatorStates :
                     /\ indicator' = ind
                     /\ Finish(RegisterTest, RegistrationCheck(ind).err,
                               RegistrationCheck(ind).msg)
              ELSE /\ indicator' = indicator
                   /\ Finish(RegisterTest, "uncaught", "")
    /\ url' = url

\* 3.1 it('should logout first if logged in')
LogoutFirstIfLoggedIn ==
    /\ TestReady(LogoutFirst)
    /\ \E loaded \in BOOLEAN, loggedOut \in BOOLEAN :
         /\ loaded \/ CanFail
         /\ IF ~loaded
              THEN /\ indicator' = indicator
                   /\ url' = url
                   /\ Finish(LogoutFirst, "uncaught", "")
              ELSE /\ indicator' = IF indicator = "visible" /\ loggedOut
                                     THEN "absent" ELSE indicator
                   /\ (indicator # "visible" => loggedOut)
                   /\ url' = "home"
                   /\ Finish(LogoutFirst,
                             IF indicator = "absent" \/ ~loggedOut
                               THEN "caught" ELSE "none", "ok")

\* 3.2 it('should login with valid credentials')
Login ==
    /\ TestReady(LoginTest)
    /\ \E submitted \in BOOLEAN, navigated \in BOOLEAN :
         /\ submitted \/ CanFail
         /\ submitted => navigated
         /\ url' = IF navigated THEN "home" ELSE url
         /\ IF submitted
              THEN \E ind \in IndicatorStates :
                     /\ indicator' = ind
                     /\ Finish(LoginTest, "none", "ok")
              ELSE /\ indicator' = indicator
                   /\ Finish(LoginTest, "uncaught", "")

\* the authenticated branch of 8.2 / 9.1 / 9.2 with its assertion outside try
GuardedOutcomeStrict(ind, branchOk) ==
    IF ind = "absent" THEN [err |-> "caught", msg |-> "note"]
    ELSE IF ind = "hidden" THEN [err |-> "none", msg |-> ""]
    ELSE IF branchOk THEN [err |-> "none", msg |-> "ok"]
    ELSE [err |-> "uncaught", msg |-> ""]

\* 8.2 / 9.1 / 9.2 after driver.get: try { icon = findElement(.navbar-profile);
\* if (isDisplayed) { ...; assert; log success } } catch (e) { log note }
GuardedOutcome(ind, branchOk) ==
    IF ind = "absent" THEN [err |-> "caught", msg |-> "note"]
    ELSE IF ind = "hidden" THEN [err |-> "none", msg |-> ""]
    ELSE IF branchOk THEN [err |-> "none", msg |-> "ok"]
    ELSE [err |-> "caught", msg |-> "note"]

\* 8.2 it('should navigate to order page when clicking checkout ...')
CheckoutNavigation ==
    /\ TestReady(CheckoutNav)
    /\ indicator' = indicator
    /\ \E loaded \in BOOLEAN, route \in {"home", "cart", "order"} :
         /\ loaded \/ CanFail
         /\ IF ~loaded
              THEN /\ url' = url
                   /\ route = "home"
                   /\ Finish(CheckoutNav, "uncaught", "")
              ELSE /\ (indicator # "visible" => route = "home")
                   /\ url' = route
                   /\ Finish(CheckoutNav,
                             GuardedOutcome(indicator, route = "order").err,
                             GuardedOutcome(indicator, route = "order").msg)

\* 8.3 it('should display delivery information form on order page')
OrderForm ==
    /\ TestReady(OrderFormTest)
    /\ UNCHANGED <<indicator, url>>
    /\ IF url = "order"
         THEN \E formOk \in BOOLEAN :
                /\ formOk \/ CanFail
                /\ Finish(OrderFormTest, IF formOk THEN "none" ELSE "uncaught",
                          IF formOk THEN "ok" ELSE "")
         ELSE Finish(OrderFormTest, "none", "note")

\* 9.1 it('should show profile dropdown on hover')
ProfileDropdown ==
    /\ TestReady(DropdownTest)
    /\ indicator' = indicator
    /\ \E loaded \in BOOLEAN, dropdownShown \in BOOLEAN :
         /\ loaded \/ CanFail
         /\ IF ~loaded
              THEN /\ url' = url
                   /\ dropdownShown
                   /\ Finish(DropdownTest, "uncaught", "")
              ELSE /\ (indicator # "visible" => dropdownShown)
                   /\ url' = "home"
                   /\ Finish(DropdownTest,
                             GuardedOutcome(indicator, dropdownShown).err,
                             GuardedOutcome(indicator, dropdownShown).msg)

\* 9.2 it('should logout successfully when clicking logout')
Logout ==
    /\ TestReady(LogoutTest)
    /\ \E loaded \in BOOLEAN, clicked \in BOOLEAN, signInShown \in BOOLEAN :
         /\ loaded \/ CanFail
         /\ signInShown => clicked
         /\ IF ~loaded
              THEN /\ url' = url
                   /\ indicator' = indicator
                   /\ clicked /\ signInShown
                   /\ Finish(LogoutTest, "uncaught", "")
              ELSE /\ (indicator # "visible" => clicked /\ signInShown)
                   /\ url' = "home"
                   /\ indicator' = IF indicator = "visible" /\ clicked
                                     THEN "absent" ELSE indicator
                   /\ Finish(LogoutTest,
                             GuardedOutcome(indicator, signInShown).err,
                             GuardedOutcome(indicator, signInShown).msg)

\* digits of a count as they appear in the log
Digits(n) == ToString(n)

\* console.log('Total Test Cases: 10'), printed when the suite file is loaded
LogHeader == <<"Total", "Test", "Cases:", "10">>

\* what npm test has printed when the run ends: the header, then mocha's
\* summary ("N passing", and "M failing" when M > 0)
MochaText(passed, failed) ==
    LogHeader \o <<Digits(passed), "passing">> \o
    (IF failed > 0 THEN <<Digits(failed), "failing">> ELSE <<>>)

\* an after hook that calls driver.quit() whatever driver holds
QuitUnguarded(d) == TRUE

\* if (driver)
QuitGuard(d) == d # "undefined"

\* after(): if (driver) { await driver.quit(); }, then mocha prints its summary
MochaAfter ==
    /\ pc = "stage" /\ cur = SeleniumIdx /\ mochaPc = "after"
    /\ IF QuitGuard(driver)
         THEN /\ quitOn' = driver
              /\ driver' = IF driver = "open" THEN "quit" ELSE driver
         ELSE UNCHANGED <<quitOn, driver>>
    /\ mochaPc' = "finished"
    /\ logFile' = [owner |-> "current",
                   text  |-> MochaText(NumPassed,
                                       NumFailed + IF hookFailed THEN 1 ELSE 0)]
    /\ UNCHANGED <<pipeVars, probeVars, hookFailed, sessions, testIdx, results,
                   lastMsg, lastError, regSubmitted, indicator, url,
                   groupStartAuth, workTree, gitError, dockerVars, postVars>>

\* the exit status of the sh step when the shell runs with pipefail
ShExitPipefail(npmExit, teeExit) == IF npmExit # 0 THEN npmExit ELSE teeExit

\* sh -xe without pipefail: the status of 'npm test 2>&1 | tee f' is tee's
ShExit(npmExit, teeExit) == teeExit

\* a step that starts npm test and returns without waiting for it
ShReturnsAtOnce(mpc) == mpc # "idle"

\* the sh step returns when its script has ended, i.e. after npm test and tee
ShReturns(mpc) == mpc = "finished"

\* the sh step returns; post { always { archiveArtifacts allowEmptyArchive } }
SeleniumFinish ==
    /\ pc = "stage" /\ cur = SeleniumIdx /\ ShReturns(mochaPc)
    /\ stageStatus[SeleniumIdx] = "running"
    /\ startOrder' = startOrder
    /\ EndStage(SeleniumIdx,
                ShExit(NumFailed + IF hookFailed THEN 1 ELSE 0, 0) = 0)
    /\ UNCHANGED <<probeVars, suiteVars, logFile, workTree, gitError, dockerVars, postVars>>

----------------------------------------------------------------------------
(* post { always / failure / success }                                     *)
(* Jenkins runs the post conditions of a declarative pipeline in its own   *)
(* fixed order (always, ..., failure, success, ...), not in textual order.  *)

\* testLog = 'Test log not available'
Placeholder == <<"Test", "log", "not", "available">>

\* what a log left by an earlier run in the same workspace may contain
StaleTexts == {MochaText(NumTests, 0), MochaText(NumTests - 2, 2)}

IsDigits(s) == s \in {Digits(n) : n \in 0..(NumTests + 1)}

MatchIndices(text, word) ==
    {i \in 1..(Len(text) - 1) : IsDigits(text[i]) /\ text[i + 1] = word}

\* the count is taken from the last match
LastIndex(S) == CHOOSE i \in S : \A j \in S : i >= j

\* passingMatch[0]: the first match
FirstIndex(S) == CHOOSE i \in S : \A j \in S : i <= j

\* def m = (testLog =~ /(\d+) word/); if (m) { count = m[0][1] }  else '0'
ExtractCount(text, word) ==
    IF MatchIndices(text, word) = {} THEN "0"
    ELSE text[FirstIndex(MatchIndices(text, word))]

\* the reporter keeps an empty string when readFile throws
ReadLogNoPlaceholder(readOk) == IF readOk THEN logFile.text ELSE <<>>

\* try { testLog = readFile(...) } catch (Exception e) { testLog = placeholder }
ReadLog(readOk) == IF readOk THEN logFile.text ELSE Placeholder

\* the success mail sent for a failed run and the failure mail for a good one
PostBlockSwapped(result) == IF result = "SUCCESS" THEN "failure" ELSE "success"

\* the post condition that matches the run's status
PostBlock(result) == IF result = "SUCCESS" THEN "success" ELSE "failure"

\* emailext(subject: "SUCCESS ...", body: ... ${passingTests} ${failingTests} ...)
SuccessMail(testLog, logRead, delivered) ==
    [kind |-> "success", hasCounts |-> TRUE,
     passing |-> ExtractCount(testLog, "passing"),
     failing |-> ExtractCount(testLog, "failing"),
     hasLog |-> FALSE, log |-> <<>>, logRead |-> logRead,
     delivered |-> delivered]

\* emailext(subject: "FAILED ...", body: ... ${testLog} ...)
FailureMail(testLog, logRead, delivered) ==
    [kind |-> "failure", hasCounts |-> FALSE, passing |-> "", failing |-> "",
     hasLog |-> TRUE, log |-> testLog, logRead |-> logRead,
     delivered |-> delivered]

\* a cleanup that also stops the deployment (docker compose down)
CleanupTearsDown(svc) == "stopped"

\* docker system prune -f removes stopped containers, unused networks,
\* dangling images and build cache: what runs keeps running
Cleanup(svc) == svc

\* post { always { sh 'docker system prune -f || true' } }
PostAlways ==
    /\ pc = "post_always"
    /\ postOrder' = Append(postOrder, "always")
    /\ services' = Cleanup(services)
    /\ pc' = "post_result"
    /\ UNCHANGED <<cur, stageStatus, startOrder, buildResult, probeVars,
                   suiteVars, logFile, workTree, gitError, published, pushTried,
                   deployPc, deploySteps, notifications>>

\* emailext outside try/catch: its exception fails the run
DispatchUncaught(result, delivered) == IF delivered THEN result ELSE "FAILURE"

\* try { emailext(...) } catch (Exception e) { echo "Failed to send email" }
ResultAfterDispatch(result, delivered) == result

\* post { success { script { read log; extract counts; try emailext } echo } }
PostSuccess ==
    /\ pc = "post_result"
    /\ PostBlock(buildResult) = "success"
    /\ \E readOk \in BOOLEAN, delivered \in BOOLEAN :
         /\ logFile.owner = "none" => ~readOk
         /\ notifications' = Append(notifications,
                                    SuccessMail(ReadLog(readOk), readOk, delivered))
         /\ buildResult' = ResultAfterDispatch(buildResult, delivered)
    /\ postOrder' = Append(postOrder, "success")
    /\ pc' = "done"
    /\ UNCHANGED <<cur, stageStatus, startOrder, probeVars, suiteVars, logFile, workTree, gitError, dockerVars>>

\* post { failure { script { read log; try emailext } echo } }
PostFailure ==
    /\ pc = "post_result"
    /\ PostBlock(buildResult) = "failure"
    /\ \E readOk \in BOOLEAN, delivered \in BOOLEAN :
         /\ logFile.owner = "none" => ~readOk
         /\ notifications' = Append(notifications,
                                    FailureMail(ReadLog(readOk), readOk, delivered))
         /\ buildResult' = ResultAfterDispatch(buildResult, delivered)
    /\ postOrder' = Append(postOrder, "failure")
    /\ pc' = "done"
    /\ UNCHANGED <<cur, stageStatus, startOrder, probeVars, suiteVars, logFile, workTree, gitError, dockerVars>>

----------------------------------------------------------------------------
(* The run *)

Init ==
    /\ pc = "stage"
    /\ cur = 1
    /\ stageStatus = [i \in 1..NumStages |-> "notrun"]
    /\ startOrder = <<>>
    /\ buildResult = "SUCCESS"
    /\ deployPc = "none"
    /\ deploySteps = [c \in DeployCommands |-> "notrun"]
    /\ probeEp = "none"
    /\ counter = 0
    /\ attempts = [e \in Endpoints |-> 0]
    /\ curlOk = [e \in Endpoints |-> FALSE]
    /\ verdict = [e \in Endpoints |-> "none"]
    /\ probeMsg = ""
    /\ clock = 0
    /\ firstAt = [e \in Endpoints |-> -1]
    /\ verdictAt = [e \in Endpoints |-> -1]
    /\ mochaPc = "idle"
    /\ driver = "undefined"
    /\ hookFailed = FALSE
    /\ sessions = 0
    /\ quitOn = "none"
    /\ testIdx = 1
    /\ results = <<>>
    /\ lastMsg = ""
    /\ lastError = "none"
    /\ regSubmitted = FALSE
    /\ indicator = "absent"
    /\ url = "blank"
    /\ groupStartAuth = [g \in AuthGroups |-> "unknown"]
    /\ workTree \in WorkTrees
    /\ gitError = ""
    /\ published = {}
    /\ pushTried = {}
    /\ services \in {"stopped", "previous"}
    /\ logFile \in {[owner |-> "none", text |-> <<>>]}
                   \cup {[owner |-> "stale", text |-> t] : t \in StaleTexts}
    \* git clone needs an empty directory: no earlier log in a workspace
    \* without a checkout
    /\ workTree = "empty" => logFile.owner = "none"
    /\ postOrder = <<>>
    /\ notifications = <<>>

Next ==
    \/ CheckoutCode
    \/ DockerLogin
    \/ BuildAndPush
    \/ DeployRun
    \/ DeployFinish
    \/ InstallTestDependencies
    \/ WaitStart
    \/ ProbeAttempt
    \/ WaitFinish
    \/ SeleniumStart
    \/ MochaBefore
    \/ GenericTest
    \/ Register
    \/ LogoutFirstIfLoggedIn
    \/ Login
    \/ CartDot
    \/ CheckoutNavigation
    \/ OrderForm
    \/ ProfileDropdown
    \/ Logout
    \/ MochaAfter
    \/ SeleniumFinish
    \/ PostAlways
    \/ PostSuccess
    \/ PostFailure

Spec == Init /\ [][Next]_vars

----------------------------------------------------------------------------
(* The reporter alone, on any log text: the stages are over and the log    *)
(* holds whatever text npm test, or an earlier run, wrote into it.         *)

\* longest log text (in tokens) the reporter is run on
MaxLogLen == 4

LogTokens == {"1", "12", "passing", "failing", "ok"}

RECURSIVE TextsUpTo(_)
TextsUpTo(n) ==
    IF n = 0 THEN {<<>>}
    ELSE TextsUpTo(n - 1) \cup
         {Append(t, k) : t \in {u \in TextsUpTo(n - 1) : Len(u) = n - 1},
                         k \in LogTokens}

InitReporter ==
    /\ pc = "post_always"
    /\ \E text \in TextsUpTo(MaxLogLen) :
         \/ /\ buildResult = "SUCCESS"
            /\ cur = SeleniumIdx
            /\ stageStatus = [i \in 1..NumStages |-> "success"]
            /\ startOrder = [i \in 1..NumStages |-> i]
            /\ curlOk = [e \in Endpoints |-> TRUE]
            /\ verdict = [e \in Endpoints |-> "ready"]
            /\ mochaPc = "finished"
            /\ driver = "quit"
            /\ sessions = 1
            /\ quitOn = "open"
            /\ workTree = "at_main"
            /\ gitError = ""
            /\ published = {Images[k] : k \in 1..3}
            /\ pushTried = {Images[k] : k \in 1..3}
            /\ services = "new"
            /\ logFile = [owner |-> "current", text |-> text]
         \/ /\ buildResult = "FAILURE"
            /\ cur = CheckoutIdx
            /\ stageStatus = [i \in 1..NumStages |->
                                IF i = CheckoutIdx THEN "failed" ELSE "notrun"]
            /\ startOrder = <<CheckoutIdx>>
            /\ curlOk = [e \in Endpoints |-> FALSE]
            /\ verdict = [e \in Endpoints |-> "none"]
            /\ mochaPc = "idle"
            /\ driver = "undefined"
            /\ sessions = 0
            /\ quitOn = "none"
            /\ workTree = "behind"
            /\ gitError = "unreachable"
            /\ published = {}
            /\ pushTried = {}
            /\ services = "previous"
            /\ logFile = [owner |-> "stale", text |-> text]
    /\ deployPc = "none"
    /\ deploySteps = [c \in DeployCommands |-> "notrun"]
    /\ probeEp = "none"
    /\ counter = 0
    /\ attempts = [e \in Endpoints |-> 0]
    /\ probeMsg = ""
    /\ clock = 0
    /\ firstAt = [e \in Endpoints |-> -1]
    /\ verdictAt = [e \in Endpoints |-> -1]
    /\ hookFailed = FALSE
    /\ testIdx = 1
    /\ results = <<>>
    /\ lastMsg = ""
    /\ lastError = "none"
    /\ regSubmitted = FALSE
    /\ indicator = "absent"
    /\ url = "blank"
    /\ groupStartAuth = [g \in AuthGroups |-> "unknown"]
    /\ postOrder = <<>>
    /\ notifications = <<>>

NextReporter ==
    \/ PostAlways
    \/ PostSuccess
    \/ PostFailure

SpecReporter == InitReporter /\ [][NextReporter]_vars

----------------------------------------------------------------------------
(* Properties: readiness probe and stage sequencing *)

PostPhase == pc \in {"post_always", "post_result", "done"}

\* C1: for each probed endpoint, when every connectivity attempt on it has
\* failed and its probing is over, the 'Wait for Services' script exits with
\* failure, the pipeline is in its failure state, and 'Run Selenium Tests' is
\* never started; that stage starts only after both endpoints answered.
C1_ExhaustedProbeIsFatal ==
    /\ \A e \in Endpoints :
         (verdict[e] # "none" /\ ~curlOk[e]) =>
            /\ stageStatus[SeleniumIdx] = "notrun"
            /\ \/ probeEp = "exit1"
               \/ /\ stageStatus[WaitIdx] = "failed"
                  /\ buildResult = "FAILURE"
                  /\ PostPhase
    /\ stageStatus[SeleniumIdx] # "notrun" => \A e \in Endpoints : curlOk[e]

\* a finished run in which every attempt on the backend failed
C1_Witness ==
    /\ pc = "done"
    /\ verdict["backend"] = "failed" /\ ~curlOk["backend"]
    /\ curlOk["frontend"]
    /\ stageStatus[WaitIdx] = "failed"
    /\ stageStatus[SeleniumIdx] = "notrun"

\* C2: stages are started in the fixed declared order; a stage has started
\* only if every earlier stage succeeded; once a stage has failed no later
\* stage is ever started.
C2_StageOrder ==
    /\ \A k \in 1..Len(startOrder) : startOrder[k] = k
    /\ \A i \in 1..NumStages : (stageStatus[i] # "notrun") <=> (i <= Len(startOrder))
    /\ \A i \in 1..NumStages :
         stageStatus[i] # "notrun" =>
            \A j \in 1..(i - 1) : stageStatus[j] = "success"
    /\ \A i \in 1..NumStages :
         stageStatus[i] = "failed" =>
            \A j \in (i + 1)..NumStages : stageStatus[j] = "notrun"

\* a finished run whose third stage failed after two successful ones
C2_Witness ==
    /\ pc = "done"
    /\ startOrder = <<CheckoutIdx, LoginIdx, BuildIdx>>
    /\ stageStatus[BuildIdx] = "failed"
    /\ stageStatus[DeployIdx] = "notrun"

ScriptRunning == probeEp # "none"

\* C3: while the probe script runs, no endpoint is tried more than 10 times;
\* an endpoint is declared failed exactly when 10 attempts were made and all
\* failed; a success on an attempt 1..10 ends its probing as ready.
C3_AtMostTenAttempts ==
    ScriptRunning =>
      \A e \in Endpoints :
        /\ attempts[e] <= 10
        /\ (verdict[e] = "failed") <=> (attempts[e] = 10 /\ ~curlOk[e])
        /\ (verdict[e] = "ready") <=> curlOk[e]
        /\ verdict[e] = "ready" => attempts[e] \in 1..10
        /\ verdict[e] = "none" => attempts[e] < 10

\* the frontend is declared failed at its 10th failed attempt
C3_Witness ==
    /\ probeEp = "exit1"
    /\ verdict["frontend"] = "failed"
    /\ attempts["frontend"] = 10
    /\ attempts["backend"] = 0

\* time units since the endpoint's first attempt, up to its verdict if reached
Elapsed(e) ==
    IF verdict[e] # "none" THEN verdictAt[e] - firstAt[e] ELSE clock - firstAt[e]

\* C4: for each endpoint the prober reaches its verdict within 100 time units
\* of that endpoint's first attempt (a sleep between attempts counts 10, an
\* attempt 0): no endpoint is ever more than 100 units past its first attempt
\* without a verdict, and no verdict comes later than that.
C4_VerdictWithinBudget ==
    ScriptRunning =>
      \A e \in Endpoints : firstAt[e] >= 0 => Elapsed(e) <= 100

\* the backend gets its verdict at the last attempt, 90 units after the first
C4_Witness ==
    /\ probeEp = "exit0"
    /\ verdict["backend"] = "ready"
    /\ attempts["backend"] = 10
    /\ verdictAt["backend"] - firstAt["backend"] = 90

----------------------------------------------------------------------------
(* Properties: the verification run *)

\* the names of the groups in the order in which the log first shows them,
\* a run of results of one group counted once
RECURSIVE GroupsLogged(_)
GroupsLogged(rs) ==
    IF rs = <<>> THEN <<>>
    ELSE LET front == GroupsLogged(SubSeq(rs, 1, Len(rs) - 1))
             name  == GroupNames[rs[Len(rs)].g]
         IN IF front # <<>> /\ front[Len(front)] = name
              THEN front ELSE Append(front, name)

IsPrefix(a, b) == Len(a) <= Len(b) /\ a = SubSeq(b, 1, Len(a))

SuiteOver == mochaPc \in {"after", "finished"}

SessionInitialised == driver # "undefined"

\* C5: in a run with an initialised browser session the results are appended
\* group by group in the declared order Homepage .. Footer: at any time the
\* groups logged are a prefix of the declared order (none reordered, repeated
\* or interleaved), and when the suite is over they are exactly the 10 groups.
C5_DeclaredGroupOrder ==
    /\ IsPrefix(GroupsLogged(results), GroupNames)
    /\ (SuiteOver /\ SessionInitialised) =>
          /\ GroupsLogged(results) = GroupNames
          /\ Len(GroupsLogged(results)) = 10

\* a finished suite with failed scenarios that logged the 10 groups in order
C5_Witness ==
    /\ mochaPc = "finished"
    /\ SessionInitialised
    /\ NumFailed = MaxFailures
    /\ GroupsLogged(results) = GroupNames

LastOutcome == results[Len(results)].outcome

\* C6 as stated: an assertion failure or thrown lookup error inside a
\* scenario makes that scenario be recorded as failed, and every later
\* scenario is still run.
C6_Original ==
    /\ (results # <<>> /\ lastError # "none") => LastOutcome = "failed"
    /\ (SuiteOver /\ SessionInitialised) => Len(results) = NumTests

\* C6 (amended): an assertion failure or lookup error that escapes the
\* scenario's own try/catch makes exactly that scenario be recorded as failed
\* (one caught inside the scenario leaves it passed), and it aborts nothing
\* else: the k-th result is always that of the k-th declared scenario, the
\* runner is always at the scenario after the last result, and a suite that
\* is over with an initialised session has a result for every scenario of
\* all 10 groups.
C6_NoCascadingAbort ==
    /\ results # <<>> => ((LastOutcome = "failed") <=> (lastError = "uncaught"))
    /\ \A k \in 1..Len(results) : <<results[k].g, results[k].t>> = TestPlan[k]
    /\ mochaPc = "tests" => Len(results) = testIdx - 1
    /\ (SuiteOver /\ SessionInitialised) =>
          /\ Len(results) = NumTests
          /\ {results[k].g : k \in 1..Len(results)} = 1..NumGroups

\* the first scenario failed and the last one was still run, and passed
C6_Witness ==
    /\ mochaPc = "finished"
    /\ Len(results) = NumTests
    /\ results[1].outcome = "failed"
    /\ results[NumTests].outcome = "passed"

\* C7: when no authenticated-session indicator is present at the start of the
\* Checkout group or of the Logout group, every scenario of that group is
\* reported as skipped, none as failed or passed.
C7_SkippedWhenAnonymous ==
    \A k \in 1..Len(results) :
       (results[k].g \in AuthGroups /\ groupStartAuth[results[k].g] = "absent")
          => results[k].outcome = "skipped"

ResultsOf(gt) ==
    {k \in 1..Len(results) : <<results[k].g, results[k].t>> = gt}

\* C8: once the registration form was submitted, the registration scenario
\* is recorded as passed whatever the indicator shows, with the success line
\* logged exactly when the indicator is visible and the note otherwise, and
\* the remaining groups are all run.
C8_RegistrationNeverFails ==
    regSubmitted =>
       /\ \A k \in ResultsOf(RegisterTest) : results[k].outcome = "passed"
       /\ ResultsOf(RegisterTest) # {}
       /\ (mochaPc = "tests" /\ TestPlan[testIdx] = LogoutFirst) =>
             /\ lastMsg \in {"ok", "note"}
             /\ (lastMsg = "ok") <=> (indicator = "visible")
       /\ SuiteOver => GroupsLogged(results) = GroupNames

\* the form was submitted, no indicator appeared, only the note was logged
C8_Witness ==
    /\ regSubmitted
    /\ mochaPc = "tests" /\ TestPlan[testIdx] = LogoutFirst
    /\ indicator = "absent"
    /\ lastMsg = "note"
    /\ results[Len(results)].outcome = "passed"

----------------------------------------------------------------------------
(* Properties: the reporter *)

\* C9: exactly one notification dispatch is attempted per run, in the post
\* section: none before it, one when the run is done, never a second one;
\* it is the success notification iff the run's status is SUCCESS and the
\* failure notification iff it is FAILURE, whatever the parsed counts are.
C9_OneNotificationByStatus ==
    /\ Len(notifications) <= 1
    /\ pc = "done" => Len(notifications) = 1
    /\ pc # "done" => Len(notifications) = 0
    /\ \A k \in 1..Len(notifications) :
         /\ (notifications[k].kind = "success") <=> (buildResult = "SUCCESS")
         /\ (notifications[k].kind = "failure") <=> (buildResult = "FAILURE")

\* the success notification went out although the parsed fail count is not 0,
\* and was not sent again when its delivery failed
C9_Witness ==
    /\ pc = "done"
    /\ Len(notifications) = 1
    /\ notifications[1].kind = "success"
    /\ notifications[1].failing # "0"
    /\ ~notifications[1].delivered

\* C10 as stated: when the log is missing or unreadable, the notification of
\* either path carries pass count 0, fail count 0 and the placeholder text.
C10_Original ==
    \A k \in 1..Len(notifications) :
       ~notifications[k].logRead =>
          /\ notifications[k].hasCounts
          /\ notifications[k].passing = "0"
          /\ notifications[k].failing = "0"
          /\ notifications[k].hasLog
          /\ notifications[k].log = <<"Test", "log", "not", "available">>

\* C10 (amended): when the log is missing or unreadable the reporter still
\* attempts its one notification: the success notification carries pass
\* count 0 and fail count 0 and no log text, the failure notification embeds
\* the placeholder 'Test log not available' and carries no counts.
C10_ReporterResilience ==
    /\ (pc = "done" /\ logFile.owner = "none") =>
          (Len(notifications) = 1 /\ ~notifications[1].logRead)
    /\ \A k \in 1..Len(notifications) :
         ~notifications[k].logRead =>
            IF notifications[k].kind = "success"
              THEN /\ notifications[k].hasCounts
                   /\ notifications[k].passing = "0"
                   /\ notifications[k].failing = "0"
                   /\ ~notifications[k].hasLog
              ELSE /\ notifications[k].hasLog
                   /\ notifications[k].log = <<"Test", "log", "not", "available">>
                   /\ ~notifications[k].hasCounts

\* a failed run with no log file in the workspace sent the placeholder
C10_Witness ==
    /\ pc = "done"
    /\ logFile.owner = "none"
    /\ Len(notifications) = 1
    /\ notifications[1].kind = "failure"
    /\ notifications[1].log = Placeholder

----------------------------------------------------------------------------
(* Properties: counts, terminal status, session, dispatch *)

\* the digits before the first "<digits> word" of the text, read left to right
RECURSIVE FirstCount(_, _)
FirstCount(text, word) ==
    IF Len(text) < 2 THEN "0"
    ELSE IF IsDigits(text[1]) /\ text[2] = word THEN text[1]
    ELSE FirstCount(Tail(text), word)

\* the text the reporter of this run parsed
TextRead(n) == IF n.logRead THEN logFile.text ELSE Placeholder

\* C11: the pass count and the fail count of a notification that carries
\* counts are the digits of the first '<digits> passing' and of the first
\* '<digits> failing' of the log text read in that run, and '0' for a pattern
\* without a match.
C11_CountsAreFirstMatch ==
    \A k \in 1..Len(notifications) :
       notifications[k].hasCounts =>
          /\ notifications[k].passing = FirstCount(TextRead(notifications[k]), "passing")
          /\ notifications[k].failing = FirstCount(TextRead(notifications[k]), "failing")

\* a log with two different 'passing' matches and no 'failing' match
C11_Witness ==
    /\ pc = "done"
    /\ logFile.text = <<"1", "passing", "12", "passing">>
    /\ Len(notifications) = 1
    /\ notifications[1].logRead
    /\ notifications[1].passing = "1"
    /\ notifications[1].failing = "0"

\* failures the suite reports to npm: failed scenarios and a failed hook
SuiteFailures == NumFailed + IF hookFailed THEN 1 ELSE 0

\* C12: the terminal status is success only if every stage succeeded, and
\* failures of verification scenarios alone never turn it into failure: while
\* the stages before 'Run Selenium Tests' have succeeded the status stays
\* success and that stage does not fail, whatever the suite reported.
C12_ScenarioFailuresNotFatal ==
    /\ (pc = "done" /\ buildResult = "SUCCESS") =>
          \A i \in 1..NumStages : stageStatus[i] = "success"
    /\ (\A i \in 1..(SeleniumIdx - 1) : stageStatus[i] = "success") =>
          /\ buildResult = "SUCCESS"
          /\ stageStatus[SeleniumIdx] # "failed"

\* a finished run with failed scenarios whose status is success
C12_Witness ==
    /\ pc = "done"
    /\ NumFailed > 0
    /\ stageStatus[SeleniumIdx] = "success"
    /\ buildResult = "SUCCESS"

\* C13: whenever the success notification ('All Tests Passed!') has been
\* emitted, every scenario passed: the suite reported no failure and the fail
\* count in the notification is 0.
C13_SuccessMailMeansAllPassed ==
    \A k \in 1..Len(notifications) :
       notifications[k].kind = "success" =>
          /\ SuiteFailures = 0
          /\ notifications[k].failing = "0"

\* C14: a before hook that failed to create the browser session is fatal to
\* the pipeline: the finished run is in the failure state and its one
\* notification is the failure notification.
C14_SessionFailureIsFatal ==
    (pc = "done" /\ hookFailed) =>
       /\ buildResult = "FAILURE"
       /\ Len(notifications) = 1
       /\ notifications[1].kind = "failure"

C16_DispatchFailureHarmless ==
    pc = "done" =>
       /\ Len(notifications) = 1
       /\ (buildResult = "FAILURE") <=>
             (\E i \in 1..NumStages : stageStatus[i] = "failed")
       /\ buildResult \in {"SUCCESS", "FAILURE"}

\* a finished successful run whose notification could not be sent
C16_Witness ==
    /\ pc = "done"
    /\ buildResult = "SUCCESS"
    /\ Len(notifications) = 1
    /\ ~notifications[1].delivered

\* C17: 'Checkout Code' is idempotent: run on a workspace that holds a checkout
\* it does not fail and leaves the work tree as a fresh clone leaves it,
\* whenever the remote can be reached. (A failed clone leaves no checkout, so a
\* checkout found after a failed stage, or one that differs from a fresh clone,
\* was there before the stage ran.)
C17_CheckoutIdempotent ==
    (/\ stageStatus[CheckoutIdx] \in {"success", "failed"}
     /\ workTree # "empty"
     /\ gitError # "unreachable") =>
       /\ stageStatus[CheckoutIdx] = "success"
       /\ workTree = "at_main"

\* post blocks have run or a notification has been attempted
ReporterActed == postOrder # <<>> \/ notifications # <<>>

\* C18 as stated: the Reporter runs only in a run in which the Verification
\* Runner ran, and after it terminated.
C18_Original ==
    notifications # <<>> =>
       /\ mochaPc = "finished"
       /\ stageStatus[SeleniumIdx] \in {"success", "failed"}

\* C18: in a run in which 'Run Selenium Tests' started, the Reporter acts only
\* after npm test has terminated and the stage has ended (never while the
\* suite is running); in a run that failed before that stage the Reporter
\* still acts, once, although the Verification Runner did not run.
C18_ReporterAfterRunner ==
    /\ (mochaPc = "idle") <=> (stageStatus[SeleniumIdx] = "notrun")
    /\ ReporterActed =>
          /\ mochaPc \in {"idle", "finished"}
          /\ stageStatus[SeleniumIdx] # "running"
    /\ pc = "done" => Len(notifications) = 1

\* the Reporter has read the log of a suite that ran and terminated in this run
C18_Witness ==
    /\ pc = "done"
    /\ mochaPc = "finished"
    /\ results # <<>>
    /\ Len(notifications) = 1
    /\ notifications[1].logRead

\* C19: nothing persists across runs: a log text the Reporter read was written
\* by this run's 'Run Selenium Tests' stage; a run that failed before that
\* stage never reports the test-results.log an earlier run left behind.
C19_LogFromThisRun ==
    \A k \in 1..Len(notifications) :
       notifications[k].logRead =>
          /\ logFile.owner = "current"
          /\ stageStatus[SeleniumIdx] # "notrun"

\* C20: the Reporter's dispatch (post success / failure) happens before the
\* cleanup step (post always), and the cleanup is the last action of the run.
C20_CleanupLast ==
    pc = "done" =>
       /\ Len(postOrder) = 2
       /\ postOrder[1] \in {"success", "failure"}
       /\ postOrder[2] = "always"

----------------------------------------------------------------------------
(* Properties: probing order, authenticated branches, publish and deploy *)

\* C21: the endpoints are probed one after the other with independent
\* budgets: the backend is attempted only after the frontend was observed
\* ready; in the backend loop the counter counts the backend's failed attempts
\* only, so the backend is given up exactly at its 10th failed attempt however
\* many attempts the frontend used; the 'Frontend service not ready' message
\* is echoed only when the frontend failed 10 attempts and the backend was
\* never attempted, the 'Backend service not ready' message only when the
\* backend failed 10 attempts; a failed endpoint is named by the message.
C21_SequentialIndependentBudgets ==
    /\ attempts["backend"] > 0 => verdict["frontend"] = "ready"
    /\ probeEp = "backend" =>
          /\ verdict["frontend"] = "ready"
          /\ counter = attempts["backend"]
    /\ (ScriptRunning /\ verdict["backend"] = "failed") =>
          /\ attempts["backend"] = max_retries
          /\ ~curlOk["backend"]
    /\ (ScriptRunning /\ verdict["frontend"] = "failed") =>
          /\ attempts["frontend"] = max_retries
          /\ attempts["backend"] = 0
    /\ probeMsg = FailureMessage("frontend") =>
          /\ verdict["frontend"] = "failed"
          /\ ~curlOk["frontend"]
          /\ verdict["backend"] = "none"
    /\ probeMsg = FailureMessage("backend") =>
          /\ verdict["backend"] = "failed"
          /\ ~curlOk["backend"]
          /\ verdict["frontend"] = "ready"
    /\ \A e \in Endpoints : verdict[e] = "failed" => probeMsg = FailureMessage(e)
    /\ probeMsg \in {"", FailureMessage("frontend"), FailureMessage("backend")}

\* the frontend answered at its 10th attempt and the backend still got 10
C21_Witness ==
    /\ probeEp = "exit1"
    /\ attempts["frontend"] = max_retries
    /\ verdict["frontend"] = "ready"
    /\ attempts["backend"] = max_retries
    /\ probeMsg = FailureMessage("backend")

\* C22: in the Checkout and Logout groups, with the authenticated-session
\* indicator present and displayed, the assertions of the authenticated branch
\* are enforced: when scenario 8.2, 9.1 or 9.2 has just ended without logging
\* its success line (the route is not the order route, the dropdown is not
\* visible, the sign-in control did not reappear), it is recorded as failed.
C22_AuthBranchEnforced ==
    results # <<>> =>
       LET r == results[Len(results)]
       IN  (/\ <<r.g, r.t>> \in {CheckoutNav, DropdownTest, LogoutTest}
            /\ groupStartAuth[r.g] = "visible"
            /\ lastMsg # "ok") => r.outcome = "failed"

\* C23: the Login group ensures a logged-out precondition: when its first
\* scenario ('should logout first if logged in') has been recorded as passed
\* and the login scenario is about to run, the session is anonymous (the
\* authenticated-session indicator is not displayed).
C23_LoginStartsAnonymous ==
    (/\ mochaPc = "tests"
     /\ testIdx <= NumTests
     /\ TestPlan[testIdx] = LoginTest
     /\ LastOutcome = "passed") => indicator # "visible"

AllImages == {Images[k] : k \in 1..Len(Images)}

\* the first n images in push order
ImagePrefix(n) == {Images[k] : k \in 1..n}

BuildEnded == stageStatus[BuildIdx] \in {"success", "failed"}

\* C24 as stated: each of the three publishes is independent of the outcome
\* of the others: once the script has reached its pushes, every image's push
\* is run.
C24_Original ==
    (BuildEnded /\ pushTried # {}) => pushTried = AllImages

\* C24 (amended): a failed publish is fatal and rolls nothing back, and it
\* prevents the later publishes: the pushes run in the order backend,
\* frontend, admin, each only after every earlier command succeeded; the
\* images published are all the images pushed except possibly the last one
\* tried, and they stay published until the run is over; the stage succeeds
\* exactly when the three images are published, and when it fails the run is
\* in its failure state and no later stage runs.
C24_PublishNotTransactional ==
    /\ \E n \in 0..Len(Images) :
         /\ pushTried = ImagePrefix(n)
         /\ \/ published = ImagePrefix(n)
            \/ n > 0 /\ published = ImagePrefix(n - 1)
    /\ BuildEnded =>
          ((stageStatus[BuildIdx] = "success") <=> (published = AllImages))
    /\ stageStatus[BuildIdx] = "failed" =>
          /\ buildResult = "FAILURE"
          /\ PostPhase
          /\ \A i \in (BuildIdx + 1)..NumStages : stageStatus[i] = "notrun"

\* a finished run whose frontend push failed after the backend was published
C24_Witness ==
    /\ pc = "done"
    /\ stageStatus[BuildIdx] = "failed"
    /\ pushTried = {"backend", "frontend"}
    /\ published = {"backend"}

\* C25: in the Deploy stage a failed teardown (docker compose down) is
\* swallowed: whatever it returned, the pull runs, and the start runs when the
\* pull succeeded; the script returns 0 exactly when the pull and the start
\* succeeded, so the stage can succeed after a failed teardown, while a failed
\* pull or start fails the stage and the pipeline.
C25_TeardownSwallowed ==
    /\ deployPc # "none" =>
          /\ deploySteps["down"] \in {"ok", "failed"}
          /\ deploySteps["pull"] \in {"ok", "failed"}
          /\ (deploySteps["up"] # "notrun") <=> (deploySteps["pull"] = "ok")
          /\ (deployPc = "exit0") <=>
                (deploySteps["pull"] = "ok" /\ deploySteps["up"] = "ok")
          /\ deployPc = "exit0" => services = "new"
    /\ stageStatus[DeployIdx] = "success" => services = "new"
    /\ stageStatus[DeployIdx] = "failed" =>
          /\ services # "new"
          /\ buildResult = "FAILURE"
          /\ PostPhase
          /\ \A i \in (DeployIdx + 1)..NumStages : stageStatus[i] = "notrun"

\* the teardown failed and the script still returns 0 with the services started
C25_Witness ==
    /\ deployPc = "exit0"
    /\ deploySteps["down"] = "failed"
    /\ deploySteps["pull"] = "ok"
    /\ deploySteps["up"] = "ok"
    /\ services = "new"

\* 'Wait for Services' or 'Run Selenium Tests' has started
VerificationBegun ==
    stageStatus[WaitIdx] # "notrun" \/ stageStatus[SeleniumIdx] # "notrun"

\* C26: publication and deployment are never undone by verification: before
\* any readiness probe or scenario runs the three images are published and
\* the new services run, and they stay so until the run is over, whether the
\* probe failed or scenarios failed; the cleanup stops nothing that runs.
C26_NeverUndone ==
    /\ VerificationBegun =>
          /\ published = AllImages
          /\ services = "new"
          /\ stageStatus[BuildIdx] = "success"
          /\ stageStatus[DeployIdx] = "success"
    /\ (attempts["frontend"] > 0 \/ mochaPc # "idle") => VerificationBegun
    /\ (PostPhase /\ stageStatus[DeployIdx] = "success") => services = "new"
    /\ (PostPhase /\ stageStatus[BuildIdx] = "success") => published = AllImages

\* a finished run that failed at the readiness probe, after the cleanup
C26_Witness ==
    /\ pc = "done"
    /\ stageStatus[WaitIdx] = "failed"
    /\ postOrder[1] = "always"
    /\ services = "new"
    /\ published = AllImages

====
